---- MODULE Spec2Model ----
(***************************************************************************)
(* Digital Bookshelf: the client-side Book Store (src/lib/store.ts), the   *)
(* page handlers that drive it (src/app/page.tsx) and the remote books     *)
(* table they talk to.                                                     *)
(***************************************************************************)
EXTENDS Integers, Sequences, FiniteSets, Bags, TLC

VARIABLES
    books,                  \* store.ts:63   Book[]
    loading,                \* store.ts:64
    searchQuery,            \* store.ts:65   a string, as a sequence of characters
    selectedCategory,       \* store.ts:66   Null or Some(category)
    selectedReadingStatus,  \* store.ts:67   Null or Some(status)
    viewMode,               \* store.ts:68
    addingBook,             \* store.ts:69
    showAddModal,           \* store.ts:72
    showEditModal,          \* store.ts:73
    showDeleteModal,        \* store.ts:74
    bookToEdit,             \* store.ts:75   Null or Some(book)
    bookToDelete,           \* store.ts:76   Null or Some(book)
    lastOp,                 \* history: the Store action or page step taken last
    mounted,                \* page.tsx:67-69  the mount effect has run
    loaded,                 \* history: a loadBooks has succeeded (page.tsx:87 ran)
    issued,                 \* history: the number of requests the page has sent
    net,                    \* bag of requests to the persistence collaborator in flight
    table,                  \* the remote books table, in insertion order
    nextId                  \* the id (and created_at) the remote assigns next

storeVars == <<books, loading, searchQuery, selectedCategory, selectedReadingStatus,
               viewMode, addingBook, showAddModal, showEditModal, showDeleteModal,
               bookToEdit, bookToDelete>>
remoteVars == <<mounted, loaded, issued, net, table, nextId>>
vars == <<storeVars, lastOp, remoteVars>>

----------------------------------------------------------------------------
(* Bounds *)
\* addBook is taken only while the collection is shorter than this
MaxBooks == 3
\* longest search query typed
MaxQueryLen == 2
\* most requests outstanding at once
MaxInflight == 2
\* most rows the remote ever inserts (ids 1..MaxInserts)
MaxInserts == 1
\* requests the page sends in one session
MaxRequests == 5

----------------------------------------------------------------------------
(* Values *)

\* `T | null`: null is the empty sequence, a value v is <<v>>.
Null == <<>>
Some(v) == <<v>>

Chars == {"a", "A", "b", "B"}
Categories == {"Sci-Fi", "Fantasy"}
ReadingStatuses == {"to-read", "reading", "finished"}
ViewModes == {"grid", "table"}

\* interface Book, store.ts:3-15 (the fields the Store's logic reads).
Book(i, t, a, c, s, ts) ==
    [id |-> i, title |-> t, author |-> a, category |-> c,
     reading_status |-> s, created_at |-> ts]

BookA  == Book(1, <<"A", "b">>, <<"b">>,      "Sci-Fi",  "reading",  1)
BookB  == Book(2, <<"b", "a">>, <<"A">>,      "Fantasy", "finished", 2)
BookC  == Book(3, <<"b">>,      <<"a", "A">>, "Sci-Fi",  "to-read",  1)
\* a second record under id 1: the Store does not look at ids on addBook
BookA2 == Book(1, <<"a">>,      <<"b", "b">>, "Fantasy", "reading",  3)

BookInputs == {BookA, BookB, BookC, BookA2}

\* Partial<Book> arguments of updateBook.
UpdateInputs ==
    { [title |-> <<"a">>],
      [category |-> "Fantasy", reading_status |-> "to-read"] }

\* ids handed to updateBook / removeBook; 9 is on no book.
IdInputs == {1, 2, 3, 9}

ListInputs ==
    { <<>>,
      <<BookC>>,
      <<BookB, BookA>>,
      <<BookA, BookA2>>,
      <<BookC, BookA, BookB>>,
      <<BookA2, BookB, BookC>> }

\* What the add form hands to handleAddBook: AddBookModal.tsx:177-187.
AddForms ==
    { [title |-> <<"A", "b">>, author |-> <<"b">>, category |-> "Sci-Fi",
       reading_status |-> "to-read"],
      [title |-> <<>>, author |-> <<"b">>, category |-> "Sci-Fi",
       reading_status |-> "to-read"] }

\* What the edit form hands to handleSaveEdit: EditBookModal.tsx:102-112.
EditForms ==
    { [title |-> <<"a">>, author |-> <<"b">>, category |-> "Fantasy",
       reading_status |-> "finished"],
      [title |-> <<"a">>, author |-> <<"b">>, category |-> "",
       reading_status |-> "finished"] }

\* !title || !author || !category is false,
\* AddBookModal.tsx:172, EditBookModal.tsx:97
FormComplete(form) ==
    form.title # <<>> /\ form.author # <<>> /\ form.category # ""

\* A request on its way to the remote; the remote's answer fills ok and data.
Request(kind, id, form) ==
    [kind |-> kind, phase |-> "sent", id |-> id, form |-> form,
     ok |-> TRUE, data |-> <<>>]

RECURSIVE StringsUpTo(_)
StringsUpTo(n) ==
    IF n = 0 THEN { <<>> }
    ELSE LET shorter == StringsUpTo(n - 1)
         IN  shorter \cup { Append(s, c) : s \in shorter, c \in Chars }

QueryInputs == StringsUpTo(MaxQueryLen)

----------------------------------------------------------------------------
(* String primitives of the JavaScript runtime used by getFilteredBooks *)

LowerChar(c) == CASE c = "A" -> "a" [] c = "B" -> "b" [] OTHER -> c

\* String.prototype.toLowerCase
toLowerCase(s) == [i \in 1..Len(s) |-> LowerChar(s[i])]

\* String.prototype.includes: scan every start offset.
includes(s, q) ==
    \E k \in 0..(Len(s) - Len(q)) : SubSeq(s, k + 1, k + Len(q)) = q

----------------------------------------------------------------------------
(* Store mutators as functions on the collection, store.ts:96-108 *)

\* { ...book, ...updates }
Spread(book, updates) ==
    [f \in (DOMAIN book) \cup (DOMAIN updates) |->
        IF f \in DOMAIN updates THEN updates[f] ELSE book[f]]

\* addBook appending instead of prepending.
addBookFn_Append(bs, book) == bs \o <<book>>

addBookFn(bs, book) == <<book>> \o bs

\* updateBook without the id test.
updateBookFn_All(bs, id, updates) ==
    [i \in 1..Len(bs) |-> Spread(bs[i], updates)]

\* updateBook with the id test inverted.
updateBookFn_Inverted(bs, id, updates) ==
    [i \in 1..Len(bs) |-> IF bs[i].id # id THEN Spread(bs[i], updates) ELSE bs[i]]

\* A variant that puts the merged records in front of the others.
updateBookFn_MoveToFront(bs, id, updates) ==
    LET hit(b)  == b.id = id
        miss(b) == b.id # id
        merged  == SelectSeq(bs, hit)
    IN  [i \in 1..Len(merged) |-> Spread(merged[i], updates)] \o SelectSeq(bs, miss)

updateBookFn(bs, id, updates) ==
    [i \in 1..Len(bs) |-> IF bs[i].id = id THEN Spread(bs[i], updates) ELSE bs[i]]

removeBookFn(bs, id) == SelectSeq(bs, LAMBDA book : book.id # id)

----------------------------------------------------------------------------
(* Computed values, store.ts:111-128 *)

matchesCategory(book) ==
    selectedCategory = Null \/ book.category = selectedCategory[1]

\* the query used as typed, not lower-cased.
matchesSearch_NoLowerQuery(book) ==
    \/ searchQuery = <<>>
    \/ includes(toLowerCase(book.title), searchQuery)
    \/ includes(toLowerCase(book.author), searchQuery)

\* the empty-query test inverted.
matchesSearch_NonEmpty(book) ==
    /\ searchQuery # <<>>
    /\ \/ includes(toLowerCase(book.title), toLowerCase(searchQuery))
       \/ includes(toLowerCase(book.author), toLowerCase(searchQuery))

matchesSearch(book) ==
    \/ searchQuery = <<>>
    \/ includes(toLowerCase(book.title), toLowerCase(searchQuery))
    \/ includes(toLowerCase(book.author), toLowerCase(searchQuery))

matchesStatus(book) ==
    selectedReadingStatus = Null \/ book.reading_status = selectedReadingStatus[1]

\* the status test joined with || instead of &&.
getFilteredBooks_Or ==
    SelectSeq(books, LAMBDA book :
        (matchesCategory(book) /\ matchesSearch(book)) \/ matchesStatus(book))

getFilteredBooks ==
    SelectSeq(books, LAMBDA book :
        matchesCategory(book) /\ matchesSearch(book) /\ matchesStatus(book))

\* Array.from(new Set(xs)): first occurrences, in order.
RECURSIVE ArrayFromSet(_)
ArrayFromSet(xs) ==
    IF xs = <<>> THEN <<>>
    ELSE LET front == ArrayFromSet(SubSeq(xs, 1, Len(xs) - 1))
             last  == xs[Len(xs)]
         IN  IF \E i \in 1..Len(front) : front[i] = last
             THEN front ELSE Append(front, last)

\* the categories without the Set.
getCategories_NoDedupe == [i \in 1..Len(books) |-> books[i].category]

getCategories == ArrayFromSet([i \in 1..Len(books) |-> books[i].category])

----------------------------------------------------------------------------
(* Initial state, store.ts:63-76 *)

Init ==
    /\ books = <<>>
    /\ loading = FALSE
    /\ searchQuery = <<>>
    /\ selectedCategory = Null
    /\ selectedReadingStatus = Null
    /\ viewMode = "grid"
    /\ addingBook = FALSE
    /\ showAddModal = FALSE
    /\ showEditModal = FALSE
    /\ showDeleteModal = FALSE
    /\ bookToEdit = Null
    /\ bookToDelete = Null
    /\ lastOp = [op |-> "init"]
    /\ mounted = FALSE
    /\ loaded = FALSE
    /\ issued = 0
    /\ net = EmptyBag
    /\ table = <<>>
    /\ nextId = 1

----------------------------------------------------------------------------
(* Store actions, store.ts:79-108 *)

filterVars == <<searchQuery, selectedCategory, selectedReadingStatus, viewMode>>
flagVars == <<loading, addingBook>>
modalVars == <<showAddModal, showEditModal, showDeleteModal, bookToEdit, bookToDelete>>

\* A variant that stores the list back to front.
setBooks_Reversed(bs) ==
    /\ books' = [i \in 1..Len(bs) |-> bs[Len(bs) + 1 - i]]
    /\ lastOp' = [op |-> "setBooks", arg |-> bs]
    /\ UNCHANGED <<filterVars, flagVars, modalVars, remoteVars>>

setBooks(bs) ==
    /\ books' = bs
    /\ lastOp' = [op |-> "setBooks", arg |-> bs]
    /\ UNCHANGED <<filterVars, flagVars, modalVars, remoteVars>>

addBook(book) ==
    /\ Len(books) < MaxBooks
    /\ books' = addBookFn(books, book)
    /\ lastOp' = [op |-> "addBook", arg |-> book]
    /\ UNCHANGED <<filterVars, flagVars, modalVars, remoteVars>>

updateBook(id, updates) ==
    /\ books' = updateBookFn(books, id, updates)
    /\ lastOp' = [op |-> "updateBook", arg |-> [id |-> id, updates |-> updates]]
    /\ UNCHANGED <<filterVars, flagVars, modalVars, remoteVars>>

removeBook(id) ==
    /\ books' = removeBookFn(books, id)
    /\ lastOp' = [op |-> "removeBook", arg |-> id]
    /\ UNCHANGED <<filterVars, flagVars, modalVars, remoteVars>>

setSearchQuery(q) ==
    /\ searchQuery' = q
    /\ lastOp' = [op |-> "setSearchQuery", arg |-> q]
    /\ UNCHANGED <<books, selectedCategory, selectedReadingStatus, viewMode,
                   flagVars, modalVars, remoteVars>>

\* A variant that also clears the search text.
setSelectedCategory_ResetSearch(c) ==
    /\ selectedCategory' = c
    /\ searchQuery' = <<>>
    /\ lastOp' = [op |-> "setSelectedCategory", arg |-> c]
    /\ UNCHANGED <<books, selectedReadingStatus, viewMode, flagVars, modalVars,
                   remoteVars>>

setSelectedCategory(c) ==
    /\ selectedCategory' = c
    /\ lastOp' = [op |-> "setSelectedCategory", arg |-> c]
    /\ UNCHANGED <<books, searchQuery, selectedReadingStatus, viewMode,
                   flagVars, modalVars, remoteVars>>

setSelectedReadingStatus(s) ==
    /\ selectedReadingStatus' = s
    /\ lastOp' = [op |-> "setSelectedReadingStatus", arg |-> s]
    /\ UNCHANGED <<books, searchQuery, selectedCategory, viewMode,
                   flagVars, modalVars, remoteVars>>

setViewMode(m) ==
    /\ viewMode' = m
    /\ lastOp' = [op |-> "setViewMode", arg |-> m]
    /\ UNCHANGED <<books, searchQuery, selectedCategory, selectedReadingStatus,
                   flagVars, modalVars, remoteVars>>

(* Modal actions, store.ts:88-93 *)

openAddModal ==
    /\ showAddModal' = TRUE
    /\ lastOp' = [op |-> "openAddModal"]
    /\ UNCHANGED <<books, filterVars, flagVars,
                   showEditModal, showDeleteModal, bookToEdit, bookToDelete,
                   remoteVars>>

closeAddModal ==
    /\ showAddModal' = FALSE
    /\ lastOp' = [op |-> "closeAddModal"]
    /\ UNCHANGED <<books, filterVars, flagVars,
                   showEditModal, showDeleteModal, bookToEdit, bookToDelete,
                   remoteVars>>

\* A variant that keeps a target that is already set.
openEditModal_KeepTarget(book) ==
    /\ showEditModal' = TRUE
    /\ bookToEdit' = IF bookToEdit = Null THEN Some(book) ELSE bookToEdit
    /\ lastOp' = [op |-> "openEditModal", arg |-> book, prev |-> bookToEdit]
    /\ UNCHANGED <<books, filterVars, flagVars,
                   showAddModal, showDeleteModal, bookToDelete, remoteVars>>

\* lastOp.prev records the target the call overwrote.
openEditModal(book) ==
    /\ showEditModal' = TRUE
    /\ bookToEdit' = Some(book)
    /\ lastOp' = [op |-> "openEditModal", arg |-> book, prev |-> bookToEdit]
    /\ UNCHANGED <<books, filterVars, flagVars,
                   showAddModal, showDeleteModal, bookToDelete, remoteVars>>

\* closeEditModal that keeps the target.
closeEditModal_KeepTarget ==
    /\ showEditModal' = FALSE
    /\ bookToEdit' = bookToEdit
    /\ lastOp' = [op |-> "closeEditModal"]
    /\ UNCHANGED <<books, filterVars, flagVars,
                   showAddModal, showDeleteModal, bookToDelete, remoteVars>>

closeEditModal ==
    /\ showEditModal' = FALSE
    /\ bookToEdit' = Null
    /\ lastOp' = [op |-> "closeEditModal"]
    /\ UNCHANGED <<books, filterVars, flagVars,
                   showAddModal, showDeleteModal, bookToDelete, remoteVars>>

openDeleteModal(book) ==
    /\ showDeleteModal' = TRUE
    /\ bookToDelete' = Some(book)
    /\ lastOp' = [op |-> "openDeleteModal", arg |-> book, prev |-> bookToDelete]
    /\ UNCHANGED <<books, filterVars, flagVars,
                   showAddModal, showEditModal, bookToEdit, remoteVars>>

closeDeleteModal_KeepTarget ==
    /\ showDeleteModal' = FALSE
    /\ bookToDelete' = bookToDelete
    /\ lastOp' = [op |-> "closeDeleteModal"]
    /\ UNCHANGED <<books, filterVars, flagVars,
                   showAddModal, showEditModal, bookToEdit, remoteVars>>

closeDeleteModal ==
    /\ showDeleteModal' = FALSE
    /\ bookToDelete' = Null
    /\ lastOp' = [op |-> "closeDeleteModal"]
    /\ UNCHANGED <<books, filterVars, flagVars,
                   showAddModal, showEditModal, bookToEdit, remoteVars>>

----------------------------------------------------------------------------
(* The persistence collaborator: the remote books table *)

Send(req) ==
    /\ BagCardinality(net) < MaxInflight
    /\ issued < MaxRequests
    /\ issued' = issued + 1
    /\ net' = net (+) SetToBag({req})
Sent(r, kind) == r.kind = kind /\ r.phase = "sent"
Replied(r, kind) == r.kind = kind /\ r.phase = "replied"
Reply(r, ok, data) ==
    net' = (net (-) SetToBag({r}))
           (+) SetToBag({[r EXCEPT !.phase = "replied", !.ok = ok, !.data = data]})
Receive(r) == net' = net (-) SetToBag({r})

\* .order('created_at', { ascending: false }): rows are stored in insertion
\* order and created_at grows with every insert.
NewestFirst(rows) == [i \in 1..Len(rows) |-> rows[Len(rows) + 1 - i]]

\* .from('books').select('*').order(...), page.tsx:76-79
ServeSelect ==
    \E r \in BagToSet(net) :
        /\ Sent(r, "select")
        /\ \/ Reply(r, TRUE, NewestFirst(table))
           \/ Reply(r, FALSE, <<>>)
        /\ lastOp' = [op |-> "serveSelect"]
        /\ UNCHANGED <<storeVars, mounted, loaded, issued, table, nextId>>

\* .from('books').insert([bookData]).select().single(), page.tsx:140-144
ServeInsert ==
    \E r \in BagToSet(net) :
        /\ Sent(r, "insert")
        /\ \/ /\ nextId <= MaxInserts
              /\ LET row == Spread(r.form[1], [id |-> nextId, created_at |-> nextId])
                 IN  /\ table' = Append(table, row)
                     /\ Reply(r, TRUE, <<row>>)
              /\ nextId' = nextId + 1
           \/ /\ Reply(r, FALSE, <<>>)
              /\ UNCHANGED <<table, nextId>>
        /\ lastOp' = [op |-> "serveInsert"]
        /\ UNCHANGED <<storeVars, mounted, loaded, issued>>

\* .from('books').update(updateData).eq('id', id).select().single(),
\* page.tsx:218-223; single() on no row is an error.
ServeUpdate ==
    \E r \in BagToSet(net) :
        /\ Sent(r, "update")
        /\ \/ /\ \E i \in 1..Len(table) : table[i].id = r.id
              /\ LET i == CHOOSE j \in 1..Len(table) : table[j].id = r.id
                     row == Spread(table[i], r.form[1])
                 IN  /\ table' = [table EXCEPT ![i] = row]
                     /\ Reply(r, TRUE, <<row>>)
           \/ /\ Reply(r, FALSE, <<>>)
              /\ UNCHANGED table
        /\ lastOp' = [op |-> "serveUpdate"]
        /\ UNCHANGED <<storeVars, mounted, loaded, issued, nextId>>

\* .from('books').delete().eq('id', bookToDelete.id), page.tsx:177-180
ServeDelete ==
    \E r \in BagToSet(net) :
        /\ Sent(r, "delete")
        /\ \/ /\ table' = SelectSeq(table, LAMBDA row : row.id # r.id)
              /\ Reply(r, TRUE, <<>>)
           \/ /\ Reply(r, FALSE, <<>>)
              /\ UNCHANGED table
        /\ lastOp' = [op |-> "serveDelete"]
        /\ UNCHANGED <<storeVars, mounted, loaded, issued, nextId>>

----------------------------------------------------------------------------
(* The page handlers, src/app/page.tsx *)

\* The page renders its controls and modals only when not loading,
\* page.tsx:250-264.
Rendered == mounted /\ ~loading

\* An open modal lays a full-screen layer over the page's own controls
\* (AddBookModal.tsx:216, EditBookModal.tsx:126, DeleteConfirmModal.tsx:17-21);
\* a pointer reaches them only once every modal is closed.
NoOverlay == ~showAddModal /\ ~showEditModal /\ ~showDeleteModal

\* books.find(b => b.id === id), page.tsx:166 and 197
Find(id) == books[CHOOSE i \in 1..Len(books) :
                    /\ books[i].id = id
                    /\ \A j \in 1..(i - 1) : books[j].id # id]

\* loadBooks up to its await, page.tsx:71-79
loadBooksCall ==
    /\ loading' = TRUE
    /\ Send(Request("select", 0, <<>>))
    /\ UNCHANGED <<books, filterVars, addingBook, modalVars, loaded, table, nextId>>

\* useEffect(() => { loadBooks() }, []), page.tsx:67-69
Mount ==
    /\ ~mounted
    /\ mounted' = TRUE
    /\ loadBooksCall
    /\ lastOp' = [op |-> "mount"]

\* the Refresh button, page.tsx:297-302
Refresh ==
    /\ Rendered /\ NoOverlay
    /\ UNCHANGED mounted
    /\ loadBooksCall
    /\ lastOp' = [op |-> "refresh"]

\* loadBooks from its await on, page.tsx:81-94
loadBooksReply ==
    \E r \in BagToSet(net) :
        /\ Replied(r, "select")
        /\ books' = IF r.ok THEN r.data ELSE books
        /\ loading' = FALSE
        /\ Receive(r)
        /\ loaded' = (loaded \/ r.ok)
        /\ UNCHANGED issued
        /\ lastOp' = [op |-> "loadBooksReply", ok |-> r.ok]
        /\ UNCHANGED <<filterVars, addingBook, modalVars, mounted, table, nextId>>

\* the Add Book button, page.tsx:381-384
AddClick ==
    /\ Rendered /\ NoOverlay /\ ~addingBook
    /\ showAddModal' = TRUE
    /\ lastOp' = [op |-> "addClick"]
    /\ UNCHANGED <<books, filterVars, flagVars, showEditModal, showDeleteModal,
                   bookToEdit, bookToDelete, remoteVars>>

\* handleAddBookFromRecommendation, page.tsx:98-114
handleAddBookFromRecommendation ==
    /\ Rendered /\ NoOverlay
    /\ showAddModal' = TRUE
    /\ lastOp' = [op |-> "handleAddBookFromRecommendation"]
    /\ UNCHANGED <<books, filterVars, flagVars, showEditModal, showDeleteModal,
                   bookToEdit, bookToDelete, remoteVars>>

\* handleCloseAddModal, page.tsx:117-120
handleCloseAddModal ==
    /\ Rendered /\ showAddModal
    /\ showAddModal' = FALSE
    /\ lastOp' = [op |-> "handleCloseAddModal"]
    /\ UNCHANGED <<books, filterVars, flagVars, showEditModal, showDeleteModal,
                   bookToEdit, bookToDelete, remoteVars>>

\* AddBookModal handleSubmit and handleAddBook up to its await,
\* AddBookModal.tsx:170-190, page.tsx:123-144
handleAddBook(form) ==
    /\ Rendered /\ showAddModal
    /\ FormComplete(form)
    /\ addingBook' = TRUE
    /\ Send(Request("insert", 0, <<form>>))
    /\ lastOp' = [op |-> "handleAddBook", arg |-> form]
    /\ UNCHANGED <<books, filterVars, loading, modalVars, mounted, loaded, table, nextId>>

\* A variant that stores the submitted form under an id made up locally.
handleAddBookReply_FromForm ==
    \E r \in BagToSet(net) :
        /\ Replied(r, "insert")
        /\ r.ok => Len(books) < MaxBooks
        /\ books' = IF r.ok
                    THEN addBookFn(books, Spread(r.form[1], [id |-> 0, created_at |-> 0]))
                    ELSE books
        /\ showAddModal' = FALSE
        /\ addingBook' = FALSE
        /\ Receive(r)
        /\ lastOp' = [op |-> "handleAddBookReply", ok |-> r.ok]
        /\ UNCHANGED <<filterVars, loading, showEditModal, showDeleteModal,
                       bookToEdit, bookToDelete, mounted, loaded, issued, table, nextId>>

\* handleAddBook from its await on, then the rest of the modal's
\* handleSubmit, page.tsx:146-161, AddBookModal.tsx:191-192
handleAddBookReply ==
    \E r \in BagToSet(net) :
        /\ Replied(r, "insert")
        /\ r.ok => Len(books) < MaxBooks
        /\ books' = IF r.ok THEN addBookFn(books, r.data[1]) ELSE books
        /\ showAddModal' = FALSE
        /\ addingBook' = FALSE
        /\ Receive(r)
        /\ lastOp' = [op |-> "handleAddBookReply", ok |-> r.ok]
        /\ UNCHANGED <<filterVars, loading, showEditModal, showDeleteModal,
                       bookToEdit, bookToDelete, mounted, loaded, issued, table, nextId>>

\* handleDeleteClick, page.tsx:165-170
handleDeleteClick(id) ==
    /\ Rendered /\ NoOverlay
    /\ \E i \in 1..Len(getFilteredBooks) : getFilteredBooks[i].id = id
    /\ showDeleteModal' = TRUE
    /\ bookToDelete' = Some(Find(id))
    /\ lastOp' = [op |-> "handleDeleteClick", arg |-> id]
    /\ UNCHANGED <<books, filterVars, flagVars, showAddModal, showEditModal,
                   bookToEdit, remoteVars>>

\* DeleteConfirmModal onCancel, page.tsx:613
CancelDelete ==
    /\ Rendered /\ showDeleteModal
    /\ showDeleteModal' = FALSE
    /\ bookToDelete' = Null
    /\ lastOp' = [op |-> "cancelDelete"]
    /\ UNCHANGED <<books, filterVars, flagVars, showAddModal, showEditModal,
                   bookToEdit, remoteVars>>

\* handleConfirmDelete up to its await, page.tsx:172-180
handleConfirmDelete ==
    /\ Rendered /\ showDeleteModal
    /\ bookToDelete # Null
    /\ Send(Request("delete", bookToDelete[1].id, <<>>))
    /\ lastOp' = [op |-> "handleConfirmDelete"]
    /\ UNCHANGED <<storeVars, mounted, loaded, table, nextId>>

\* A variant that removes the record whatever the remote answered.
handleConfirmDeleteReply_Always ==
    \E r \in BagToSet(net) :
        /\ Replied(r, "delete")
        /\ books' = removeBookFn(books, r.id)
        /\ showDeleteModal' = IF r.ok THEN FALSE ELSE showDeleteModal
        /\ bookToDelete' = IF r.ok THEN Null ELSE bookToDelete
        /\ Receive(r)
        /\ lastOp' = [op |-> "handleConfirmDeleteReply", ok |-> r.ok,
                      arg |-> r.id]
        /\ UNCHANGED <<filterVars, flagVars, showAddModal, showEditModal, bookToEdit,
                       mounted, loaded, issued, table, nextId>>

\* handleConfirmDelete from its await on, page.tsx:182-192
handleConfirmDeleteReply ==
    \E r \in BagToSet(net) :
        /\ Replied(r, "delete")
        /\ books' = IF r.ok THEN removeBookFn(books, r.id) ELSE books
        /\ showDeleteModal' = IF r.ok THEN FALSE ELSE showDeleteModal
        /\ bookToDelete' = IF r.ok THEN Null ELSE bookToDelete
        /\ Receive(r)
        /\ lastOp' = [op |-> "handleConfirmDeleteReply", ok |-> r.ok,
                      arg |-> r.id]
        /\ UNCHANGED <<filterVars, flagVars, showAddModal, showEditModal, bookToEdit,
                       mounted, loaded, issued, table, nextId>>

\* handleEditClick, page.tsx:196-201
handleEditClick(id) ==
    /\ Rendered /\ NoOverlay
    /\ \E i \in 1..Len(getFilteredBooks) : getFilteredBooks[i].id = id
    /\ showEditModal' = TRUE
    /\ bookToEdit' = Some(Find(id))
    /\ lastOp' = [op |-> "handleEditClick", arg |-> id]
    /\ UNCHANGED <<books, filterVars, flagVars, showAddModal, showDeleteModal,
                   bookToDelete, remoteVars>>

\* EditBookModal onClose, page.tsx:620
CloseEdit ==
    /\ Rendered /\ showEditModal
    /\ showEditModal' = FALSE
    /\ bookToEdit' = Null
    /\ lastOp' = [op |-> "closeEdit"]
    /\ UNCHANGED <<books, filterVars, flagVars, showAddModal, showDeleteModal,
                   bookToDelete, remoteVars>>

\* EditBookModal handleSubmit: onSave is not awaited and onClose follows
\* at once; handleSaveEdit up to its await.
\* EditBookModal.tsx:95-116, page.tsx:203-223
handleSaveEdit(form) ==
    /\ Rendered /\ showEditModal
    /\ bookToEdit # Null
    /\ FormComplete(form)
    /\ Send(Request("update", bookToEdit[1].id, <<form>>))
    /\ showEditModal' = FALSE
    /\ bookToEdit' = Null
    /\ lastOp' = [op |-> "handleSaveEdit", arg |-> form]
    /\ UNCHANGED <<books, filterVars, flagVars, showAddModal, showDeleteModal,
                   bookToDelete, mounted, loaded, table, nextId>>

\* handleSaveEdit from its await on, page.tsx:225-238
handleSaveEditReply ==
    \E r \in BagToSet(net) :
        /\ Replied(r, "update")
        /\ books' = IF r.ok
                    THEN updateBookFn(books, r.id, r.data[1])
                    ELSE books
        /\ showEditModal' = IF r.ok THEN FALSE ELSE showEditModal
        /\ bookToEdit' = IF r.ok THEN Null ELSE bookToEdit
        /\ Receive(r)
        /\ lastOp' = [op |-> "handleSaveEditReply", ok |-> r.ok]
        /\ UNCHANGED <<filterVars, flagVars, showAddModal, showDeleteModal,
                       bookToDelete, mounted, loaded, issued, table, nextId>>

Next ==
    \/ Mount
    \/ Refresh
    \/ AddClick
    \/ handleAddBookFromRecommendation
    \/ handleCloseAddModal
    \/ \E form \in AddForms : handleAddBook(form)
    \/ \E id \in 1..MaxInserts : handleDeleteClick(id)
    \/ CancelDelete
    \/ handleConfirmDelete
    \/ \E id \in 1..MaxInserts : handleEditClick(id)
    \/ CloseEdit
    \/ \E form \in EditForms : handleSaveEdit(form)
    \/ ServeSelect
    \/ ServeInsert
    \/ ServeUpdate
    \/ ServeDelete
    \/ loadBooksReply
    \/ handleAddBookReply
    \/ handleConfirmDeleteReply
    \/ handleSaveEditReply

Spec == Init /\ [][Next]_vars

----------------------------------------------------------------------------
(* The Store driven directly through its mutators *)

NextStore ==
    \/ \E bs \in ListInputs : setBooks(bs)
    \/ \E book \in BookInputs : addBook(book)
    \/ \E id \in IdInputs, updates \in UpdateInputs : updateBook(id, updates)
    \/ \E id \in IdInputs : removeBook(id)

SpecStore == Init /\ [][NextStore]_vars

(* The Store's filters and derived views *)

NextView ==
    \/ \E bs \in ListInputs : setBooks(bs)
    \/ \E q \in QueryInputs : setSearchQuery(q)
    \/ \E c \in {Null} \cup {Some(x) : x \in Categories} : setSelectedCategory(c)
    \/ \E s \in {Null} \cup {Some(x) : x \in ReadingStatuses} : setSelectedReadingStatus(s)

SpecView == Init /\ [][NextView]_vars

(* The whole Store API on a few inputs: every action of store.ts:79-108,
   with an update that names the id field among the inputs *)

NextApi ==
    \/ \E bs \in {<<>>, <<BookB, BookA>>} : setBooks(bs)
    \/ addBook(BookA)
    \/ \E id \in {1, 9}, updates \in {[title |-> <<"a">>], [id |-> 2]} :
          updateBook(id, updates)
    \/ \E id \in {1, 2} : removeBook(id)
    \/ \E q \in {<<>>, <<"a">>} : setSearchQuery(q)
    \/ \E c \in {Null, Some("Fantasy")} : setSelectedCategory(c)
    \/ \E st \in {Null, Some("reading")} : setSelectedReadingStatus(st)
    \/ \E m \in ViewModes : setViewMode(m)
    \/ openAddModal
    \/ closeAddModal
    \/ openEditModal(BookA)
    \/ closeEditModal
    \/ openDeleteModal(BookB)
    \/ closeDeleteModal

SpecApi == Init /\ [][NextApi]_vars

(* The modal flags and targets *)

NextModal ==
    \/ openAddModal
    \/ closeAddModal
    \/ \E book \in BookInputs : openEditModal(book)
    \/ closeEditModal
    \/ \E book \in BookInputs : openDeleteModal(book)
    \/ closeDeleteModal

SpecModal == Init /\ [][NextModal]_vars

----------------------------------------------------------------------------
(* The REST backend over the same table: the book controller
   (bookController.ts, wired by the router) and simple-server.js *)

\* Request bodies are JSON objects: a key that is absent is not in the
\* record's DOMAIN; text is a sequence of characters; cover_url, when
\* present, is Null (JSON null) or Some(text).
RestStrings == {<<>>, <<" ">>, <<"a">>, <<" ", "a">>}
PostBodies ==
    {[title |-> t, author |-> <<"a">>, category |-> <<"a", " ">>] : t \in RestStrings}
    \cup {[title |-> <<"a">>, author |-> <<"a">>],
          [title |-> <<"a">>, author |-> <<"a">>, category |-> <<"a">>,
           cover_url |-> Some(<<"a">>)]}
PutBodies ==
    {[title |-> t] : t \in RestStrings}
    \cup {[category |-> <<" ", "a">>, cover_url |-> Null]}
RestIds == 1..(MaxInserts + 1)

\* String.prototype.trim
trim(s) ==
    LET inked == {i \in 1..Len(s) : s[i] # " "}
    IN  IF inked = {} THEN <<>>
        ELSE SubSeq(s, CHOOSE i \in inked : \A j \in inked : i <= j,
                       CHOOSE i \in inked : \A j \in inked : j <= i)

\* !body[f] for a text field: undefined or the empty string
Falsy(body, f) == f \notin DOMAIN body \/ body[f] = <<>>

\* cover_url || null
CoverOrNull(body) ==
    IF "cover_url" \in DOMAIN body /\ body.cover_url # Null /\ body.cover_url # Some(<<>>)
    THEN body.cover_url
    ELSE Null

\* The response a handler sends and what it was asked, kept in lastOp:
\* found says whether the id was in the table when the request came, db
\* whether the database answered.
Respond(op, id, body, found, db, status, json) ==
    lastOp' = [op |-> op, id |-> id, body |-> body, found |-> found, db |-> db,
               status |-> status, json |-> json]

RowIndexes(id) == {i \in 1..Len(table) : table[i].id = id}

\* The handler of POST /api/v1/books, the same text in both servers.
PostBook(op, body) ==
    IF Falsy(body, "title") \/ Falsy(body, "author") \/ Falsy(body, "category")
       THEN /\ Respond(op, 0, body, FALSE, TRUE, 400,
                       [success |-> FALSE,
                        error |-> "Missing required fields: title, author, category"])
            /\ UNCHANGED <<table, nextId>>
       ELSE \/ /\ nextId <= MaxInserts
               /\ LET row == [id |-> nextId,
                              title |-> trim(body.title),
                              author |-> trim(body.author),
                              category |-> trim(body.category),
                              cover_url |-> CoverOrNull(body),
                              created_at |-> nextId]
                  IN  /\ table' = Append(table, row)
                      /\ Respond(op, 0, body, FALSE, TRUE, 201,
                                 [success |-> TRUE, data |-> row,
                                  message |-> "Book created successfully"])
               /\ nextId' = nextId + 1
            \/ /\ Respond(op, 0, body, FALSE, FALSE, 500,
                          [success |-> FALSE, error |-> "Failed to create book",
                           message |-> "error.message"])
               /\ UNCHANGED <<table, nextId>>

\* createBook, bookController.ts:71-111
ctlCreateBook(body) ==
    /\ PostBook("ctlCreateBook", body)
    /\ UNCHANGED <<storeVars, mounted, loaded, issued, net>>

\* app.post, simple-server.js:561-600
simplePost(body) ==
    /\ PostBook("simplePost", body)
    /\ UNCHANGED <<storeVars, mounted, loaded, issued, net>>

\* updateData of the controller: a text field is taken, trimmed, when it is
\* truthy; cover_url whenever it is not undefined. bookController.ts:120-124
ctlUpdateData(body) ==
    [f \in {g \in DOMAIN body :
              \/ g \in {"title", "author", "category"} /\ body[g] # <<>>
              \/ g = "cover_url"} |->
        IF f = "cover_url" THEN body[f] ELSE trim(body[f])]

\* .update(updateData).eq('id', id).select().single() and the response:
\* no matching row is error PGRST116 (404), another error is thrown (500).
\* With nothing to set the database client writes nothing and answers
\* with the row or with no row.
PutBook(op, id, body, updateData) ==
    LET hit == RowIndexes(id)
        row == Spread(table[CHOOSE i \in hit : TRUE], updateData)
        ok  == [success |-> TRUE, data |-> row,
                message |-> "Book updated successfully"]
        notFound == [success |-> FALSE, error |-> "Book not found"]
    IN  \/ /\ hit = {}
           /\ Respond(op, id, body, FALSE, TRUE, 404, notFound)
           /\ UNCHANGED table
        \/ /\ hit # {} /\ DOMAIN updateData # {}
           /\ table' = [i \in 1..Len(table) |->
                          IF i \in hit THEN Spread(table[i], updateData)
                          ELSE table[i]]
           /\ Respond(op, id, body, TRUE, TRUE, 200, ok)
        \/ /\ hit # {} /\ DOMAIN updateData = {}
           /\ \/ Respond(op, id, body, TRUE, TRUE, 200, ok)
              \/ Respond(op, id, body, TRUE, TRUE, 404, notFound)
           /\ UNCHANGED table
        \/ /\ Respond(op, id, body, hit # {}, FALSE, 500,
                      [success |-> FALSE, error |-> "Failed to update book",
                       message |-> "error.message"])
           /\ UNCHANGED table

\* updateBook, bookController.ts:114-157
ctlUpdateBook(id, body) ==
    /\ PutBook("ctlUpdateBook", id, body, ctlUpdateData(body))
    /\ UNCHANGED <<storeVars, mounted, loaded, issued, net, nextId>>

\* app.put, simple-server.js:603-640: the body is the update
simplePut(id, body) ==
    /\ PutBook("simplePut", id, body, body)
    /\ UNCHANGED <<storeVars, mounted, loaded, issued, net, nextId>>

\* The handler of DELETE /api/v1/books/:id, the same text in both servers:
\* .delete().eq('id', id) is no error when no row matches.
DeleteBook(op, id) ==
    \/ /\ table' = SelectSeq(table, LAMBDA row : row.id # id)
       /\ Respond(op, id, <<>>, RowIndexes(id) # {}, TRUE, 200,
                  [success |-> TRUE, message |-> "Book deleted successfully"])
    \/ /\ Respond(op, id, <<>>, RowIndexes(id) # {}, FALSE, 500,
                  [success |-> FALSE, error |-> "Failed to delete book",
                   message |-> "error.message"])
       /\ UNCHANGED table

\* deleteBook, bookController.ts:160-185
ctlDeleteBook(id) ==
    /\ DeleteBook("ctlDeleteBook", id)
    /\ UNCHANGED <<storeVars, mounted, loaded, issued, net, nextId>>

\* app.delete, simple-server.js:643-668
simpleDelete(id) ==
    /\ DeleteBook("simpleDelete", id)
    /\ UNCHANGED <<storeVars, mounted, loaded, issued, net, nextId>>

\* The handler of GET /api/v1/books, the same text in both servers; the
\* timestamp is the clock's reading, one value here.
GetBooks(op) ==
    \/ Respond(op, 0, <<>>, FALSE, TRUE, 200,
               [success |-> TRUE, data |-> NewestFirst(table),
                count |-> Len(table), timestamp |-> "now"])
    \/ Respond(op, 0, <<>>, FALSE, FALSE, 500,
               [success |-> FALSE, error |-> "Failed to fetch books",
                message |-> "error.message"])

\* getAllBooks, bookController.ts:5-31
getAllBooks ==
    /\ GetBooks("getAllBooks")
    /\ UNCHANGED <<storeVars, mounted, loaded, issued, net, table, nextId>>

\* app.get, simple-server.js:54-83
simpleGetAll ==
    /\ GetBooks("simpleGetAll")
    /\ UNCHANGED <<storeVars, mounted, loaded, issued, net, table, nextId>>

\* getBookById, bookController.ts:34-68
getBookById(id) ==
    /\ \/ /\ RowIndexes(id) = {}
          /\ Respond("getBookById", id, <<>>, FALSE, TRUE, 404,
                     [success |-> FALSE, error |-> "Book not found"])
       \/ /\ RowIndexes(id) # {}
          /\ Respond("getBookById", id, <<>>, TRUE, TRUE, 200,
                     [success |-> TRUE,
                      data |-> table[CHOOSE i \in RowIndexes(id) : TRUE]])
       \/ Respond("getBookById", id, <<>>, RowIndexes(id) # {}, FALSE, 500,
                  [success |-> FALSE, error |-> "Failed to fetch book",
                   message |-> "error.message"])
    /\ UNCHANGED <<storeVars, mounted, loaded, issued, net, table, nextId>>

NextRest ==
    \/ getAllBooks
    \/ simpleGetAll
    \/ \E id \in RestIds : getBookById(id)
    \/ \E body \in PostBodies : ctlCreateBook(body)
    \/ \E body \in PostBodies : simplePost(body)
    \/ \E id \in RestIds, body \in PutBodies : ctlUpdateBook(id, body)
    \/ \E id \in RestIds, body \in PutBodies : simplePut(id, body)
    \/ \E id \in RestIds : ctlDeleteBook(id)
    \/ \E id \in RestIds : simpleDelete(id)

SpecRest == Init /\ [][NextRest]_vars

----------------------------------------------------------------------------
(* The recommendations endpoint, app/api/recommendations route *)

\* slice(0, 4)
RecLimit == 4

Rec(t, a, c, g) ==
    [title |-> t, author |-> a, reason |-> "fallback reason", confidence |-> c,
     genre |-> g]

\* getFallbackRecommendations; the reason texts are shortened to one
\* stand-in, nothing reads them.
getFallbackRecommendations(preferredGenre) ==
    LET general == <<Rec("Educated", "Tara Westover", 9, "Biography"),
                     Rec("Becoming", "Michelle Obama", 9, "Biography"),
                     Rec("The Alchemist", "Paulo Coelho", 8, "Philosophy"),
                     Rec("Atomic Habits", "James Clear", 9, "Self-Help")>>
    IN  CASE preferredGenre = "Science" ->
               <<Rec("Sapiens", "Yuval Noah Harari", 8, "Science"),
                 Rec("The Immortal Life of Henrietta Lacks", "Rebecca Skloot", 7, "Science"),
                 Rec("Astrophysics for People in a Hurry", "Neil deGrasse Tyson", 8, "Science"),
                 Rec("The Code Breaker", "Walter Isaacson", 8, "Science")>>
          [] preferredGenre = "Sports & Recreation" ->
               <<Rec("Open", "Andre Agassi", 8, "Sports"),
                 Rec("The Boys in the Boat", "Daniel James Brown", 8, "Sports"),
                 Rec("Moneyball", "Michael Lewis", 9, "Sports"),
                 Rec("The Last Dance", "Michael Jordan", 8, "Sports")>>
          [] preferredGenre = "Fiction" ->
               <<Rec("The Seven Husbands of Evelyn Hugo", "Taylor Jenkins Reid", 8, "Fiction"),
                 Rec("Where the Crawdads Sing", "Delia Owens", 8, "Fiction"),
                 Rec("The Midnight Library", "Matt Haig", 8, "Fiction"),
                 Rec("Klara and the Sun", "Kazuo Ishiguro", 8, "Fiction")>>
          [] preferredGenre = "General" -> general
          [] OTHER -> general

\* Elements the generated JSON array may hold: a complete object, an object
\* with falsy values and missing keys, and null.
AiItems ==
    {Some([title |-> "T", author |-> "A", reason |-> "R", confidence |-> 8,
           genre |-> "G"]),
     Some([title |-> "", confidence |-> 0, genre |-> "G"]),
     Null}

\* longest array the generation call returns
MaxArray == 5

RECURSIVE ArraysUpTo(_)
ArraysUpTo(n) ==
    IF n = 0 THEN {<<>>}
    ELSE LET shorter == ArraysUpTo(n - 1)
         IN  shorter \cup {Append(a, x) : a \in {b \in shorter : Len(b) = n - 1},
                                        x \in AiItems}

\* What openai.chat.completions.create does: it throws, it returns no
\* content, or it returns text that is not JSON, JSON that is not an array,
\* or a JSON array.
AiOutcomes ==
    {[kind |-> "throw", items |-> <<>>], [kind |-> "empty", items |-> <<>>],
     [kind |-> "text", items |-> <<>>], [kind |-> "object", items |-> <<>>]}
    \cup {[kind |-> "array", items |-> a] : a \in ArraysUpTo(MaxArray)}

\* The request body: the categories of its books in order, or a body
\* without a books array.
RecRequests ==
    {[books |-> TRUE, categories |-> <<>>],
     [books |-> TRUE, categories |-> <<"Science", "Fiction">>],
     [books |-> TRUE, categories |-> <<"Mystery">>],
     [books |-> FALSE, categories |-> <<>>]}

\* The positions whose cover lookup finds a picture (getBookCover).
CoverOutcomes == {{}, {1, 3}, 1..RecLimit}

\* rec.f || fallback: confidence is a number (0 is falsy), the other
\* fields are text ("" is falsy).
OrElse(obj, f, fallback) ==
    IF f \in DOMAIN obj /\ obj[f] # (IF f = "confidence" THEN 0 ELSE "")
    THEN obj[f]
    ELSE fallback

\* The validated list of the inner try, or Null when it throws
\* (JSON.parse fails, not an array, or an element is null).
Parsed(ai) ==
    IF ai.kind # "array" \/ \E i \in 1..Len(ai.items) : ai.items[i] = Null
    THEN Null
    ELSE Some([i \in 1..Len(ai.items) |->
                 LET rec == ai.items[i][1]
                 IN  [title |-> OrElse(rec, "title", "Unknown Title"),
                      author |-> OrElse(rec, "author", "Unknown Author"),
                      reason |-> OrElse(rec, "reason",
                                        "Recommended based on your reading history"),
                      confidence |-> OrElse(rec, "confidence", 7),
                      genre |-> OrElse(rec, "genre", "General")]])

WithCovers(recs, found) ==
    [i \in 1..Len(recs) |->
        Spread(recs[i], [cover_url |-> IF i \in found THEN Some("https") ELSE Null])]

\* The answer of POST to a request: status and JSON body.
RecResponse(apiKey, request, ai, found) ==
    IF ~apiKey
    THEN [status |-> 500, json |-> [error |-> "OpenAI API key not configured"]]
    ELSE IF ~request.books \/ ai.kind \in {"throw", "empty"}
    THEN [status |-> 200,
          json |-> [recommendations |->
                        WithCovers(getFallbackRecommendations("General"), found),
                    basedOn |-> <<"General">>,
                    error |-> "Using fallback recommendations"]]
    ELSE LET fallbackGenre == IF request.categories # <<>>
                              THEN request.categories[1] ELSE "Fiction"
             recommendations ==
                 IF Parsed(ai) = Null
                 THEN getFallbackRecommendations(fallbackGenre)
                 ELSE Parsed(ai)[1]
         IN  [status |-> 200,
              json |-> [recommendations |->
                            WithCovers(SubSeq(recommendations, 1,
                                              IF Len(recommendations) < RecLimit
                                              THEN Len(recommendations)
                                              ELSE RecLimit), found),
                        basedOn |-> request.categories]]

\* A request reaches the endpoint, with or without an API key configured.
\* The endpoint keeps nothing between requests, so a behaviour is one
\* request.
Arrive(apiKey, request) ==
    /\ lastOp.op = "init"
    /\ lastOp' = [op |-> "arrive", apiKey |-> apiKey, request |-> request]
    /\ UNCHANGED <<storeVars, remoteVars>>

\* export async function POST, with what the generation call and the cover
\* lookups answer
POST(ai, found) ==
    /\ lastOp.op = "arrive"
    /\ LET answer == RecResponse(lastOp.apiKey, lastOp.request, ai, found)
       IN  lastOp' = [op |-> "POST", apiKey |-> lastOp.apiKey,
                      request |-> lastOp.request, ai |-> ai,
                      status |-> answer.status, json |-> answer.json]
    /\ UNCHANGED <<storeVars, remoteVars>>

NextRec ==
    \/ \E apiKey \in BOOLEAN, request \in RecRequests : Arrive(apiKey, request)
    \/ \E ai \in AiOutcomes, found \in CoverOutcomes : POST(ai, found)

SpecRec == Init /\ [][NextRec]_vars

----------------------------------------------------------------------------
(* The add and edit forms, AddBookModal.tsx and EditBookModal.tsx: the
   reading fields a form holds, the payload handleSubmit builds from them,
   and the row the payload is written to.  The form and the row are kept
   in lastOp: [op, open, modal, readingStatus, progressPercentage, dateStarted,
   row, prev, payload],
   prev being the row as it was when the form was submitted. *)

Today == "2024-02-01"
SliderValues == {0, 40, 100}
DateInputs == {"", "2024-01-05"}
ProgressBodies == {[progress_percentage |-> 150], [reading_status |-> "reading"]}

FormState ==
    IF lastOp.op = "init"
    THEN [op |-> "init", open |-> FALSE, modal |-> "add", readingStatus |-> "to-read",
          progressPercentage |-> 0, dateStarted |-> "", row |-> Null,
          prev |-> Null, payload |-> Null]
    ELSE lastOp

FormOpen == FormState.open

(* useState defaults and resetForm, AddBookModal.tsx:65-70, 199-208 *)
openAddForm ==
    /\ ~FormOpen
    /\ lastOp' = [FormState EXCEPT !.op = "openAddForm", !.open = TRUE,
                    !.modal = "add",
                    !.readingStatus = "to-read", !.progressPercentage = 0,
                    !.dateStarted = "", !.payload = Null]
    /\ UNCHANGED <<storeVars, remoteVars>>

(* The effect that populates the edit form, EditBookModal.tsx:71-82 *)
openEditForm ==
    /\ ~FormOpen
    /\ FormState.row # Null
    /\ LET book == FormState.row[1]
       IN  lastOp' = [FormState EXCEPT !.op = "openEditForm", !.open = TRUE,
                        !.modal = "edit",
                        !.readingStatus = book.reading_status,
                        !.progressPercentage = book.progress_percentage,
                        !.dateStarted = IF book.date_started = Null THEN ""
                                        ELSE book.date_started[1],
                        !.payload = Null]
    /\ UNCHANGED <<storeVars, remoteVars>>

setReadingStatus(status) ==
    /\ FormOpen
    /\ lastOp' = [FormState EXCEPT !.op = "setReadingStatus", !.readingStatus = status]
    /\ UNCHANGED <<storeVars, remoteVars>>

(* The range input, min 0 and max 100 *)
setProgressPercentage(value) ==
    /\ FormOpen
    /\ lastOp' = [FormState EXCEPT !.op = "setProgressPercentage",
                    !.progressPercentage = value]
    /\ UNCHANGED <<storeVars, remoteVars>>

setDateStarted(value) ==
    /\ FormOpen
    /\ lastOp' = [FormState EXCEPT !.op = "setDateStarted", !.dateStarted = value]
    /\ UNCHANGED <<storeVars, remoteVars>>

(* The reading fields of newBook / updates, AddBookModal.tsx:177-187 and
   EditBookModal.tsx:102-112 *)
FormPayload(f) ==
    [reading_status |-> f.readingStatus,
     progress_percentage |->
        IF f.readingStatus = "reading" THEN f.progressPercentage
        ELSE IF f.readingStatus = "finished" THEN 100 ELSE 0,
     date_started |->
        IF f.readingStatus # "to-read" /\ f.dateStarted # ""
        THEN Some(f.dateStarted) ELSE Null,
     date_finished |->
        IF f.readingStatus = "finished" /\ f.dateStarted # ""
        THEN Some(Today) ELSE Null]

(* handleSubmit of either form, then handleAddBook / handleSaveEdit writing
   the payload's reading fields to the row (page.tsx:126-137, 205-215);
   a refused write leaves the row as it was.  Both forms then close. *)
handleSubmitForm(ok) ==
    /\ FormOpen
    /\ LET payload == FormPayload(FormState)
       IN  lastOp' = [FormState EXCEPT !.op = "handleSubmit", !.open = FALSE,
                        !.payload = Some(payload), !.prev = FormState.row,
                        !.row = IF ok /\ (FormState.modal = "add" \/ FormState.row # Null)
                                THEN Some(payload) ELSE @]
    /\ UNCHANGED <<storeVars, remoteVars>>

(* PUT /api/v1/books/:id of simple-server.js:603-640 on the same row: the
   body is handed to update() as it arrived. *)
simplePutFields(body) ==
    /\ FormState.row # Null
    /\ LET row == FormState.row[1]
       IN  lastOp' = [FormState EXCEPT !.op = "simplePut",
                        !.row = Some([f \in DOMAIN row |->
                                        IF f \in DOMAIN body THEN body[f] ELSE row[f]])]
    /\ UNCHANGED <<storeVars, remoteVars>>

NextForm ==
    \/ openAddForm
    \/ openEditForm
    \/ \E status \in ReadingStatuses : setReadingStatus(status)
    \/ \E value \in SliderValues : setProgressPercentage(value)
    \/ \E value \in DateInputs : setDateStarted(value)
    \/ \E ok \in BOOLEAN : handleSubmitForm(ok)
    \/ \E body \in ProgressBodies : simplePutFields(body)

SpecForm == Init /\ [][NextForm]_vars

----------------------------------------------------------------------------
(* deleteBook and deleteBookCover of src/lib/database.ts over the books
   table and the book-covers bucket.  A cover URL is a sequence of pieces;
   "/" is the separator split('/') cuts at, and the pieces are chosen so
   that the text 'supabase' or 'book-cover-' occurs in a URL exactly where
   a piece of that name stands.  The rows, the bucket and the position of
   the running call are kept in lastOp: [op, pc, rows, storage, bookId,
   book, rowOutcome, removeCalls, before, result]. *)

MaxCovers == 2

CoverUrls ==
    { <<"https:", "/", "/", "supabase", "/", "book-covers", "/", "book-cover-", "1.png">>,
      <<"https:", "/", "/", "supabase", "/", "book-covers", "/", "avatar.png">>,
      <<"https:", "/", "/", "books.google", "/", "book-cover-", "2.png">>,
      <<"https:", "/", "/", "supabase", "/", "book-cover-", "3.png", "/">>,
      <<"https:", "/", "/", "supabase", "/", "book-cover-", "dir", "/", "old-", "book-cover-">> }

(* What BookCoverUpload produces: an object in the bucket and its URL *)
UploadedUrls ==
    { <<"https:", "/", "/", "supabase", "/", "book-covers", "/", "book-cover-", "1.png">> }

(* imageUrl.split('/') and its last element *)
LastSlash(url) ==
    IF \E i \in 1..Len(url) : url[i] = "/"
    THEN CHOOSE i \in 1..Len(url) :
            url[i] = "/" /\ \A j \in (i + 1)..Len(url) : url[j] # "/"
    ELSE 0

Filename(url) == SubSeq(url, LastSlash(url) + 1, Len(url))

startsWith(text, q) == Len(q) <= Len(text) /\ SubSeq(text, 1, Len(q)) = q

CoverState ==
    IF lastOp.op = "init"
    THEN [op |-> "init", pc |-> "idle", rows |-> {}, storage |-> {},
          bookId |-> 0, book |-> Null, rowOutcome |-> "none",
          removeCalls |-> {}, before |-> {}, result |-> Null]
    ELSE lastOp

(* A book row being created with or without a cover; an uploaded cover's
   object is in the bucket. *)
createBookRow(id, cover) ==
    /\ CoverState.pc = "idle"
    /\ Cardinality(CoverState.rows) < MaxCovers
    /\ \A r \in CoverState.rows : r.id # id
    /\ lastOp' = [CoverState EXCEPT
                    !.op = "createBook",
                    !.rows = @ \cup {[id |-> id, cover_url |-> cover]},
                    !.storage = IF cover # Null /\ cover[1] \in UploadedUrls
                                THEN @ \cup {Filename(cover[1])} ELSE @]
    /\ UNCHANGED <<storeVars, remoteVars>>

(* deleteBook, lines 115-120: the select of cover_url; it yields no book
   when the row is absent or the select fails, and a throw goes to the
   catch block. *)
deleteBookSelect(bookId, outcome) ==
    /\ CoverState.pc = "idle"
    /\ LET found == {r \in CoverState.rows : r.id = bookId}
           called == [CoverState EXCEPT !.op = "deleteBook.select",
                        !.bookId = bookId, !.rowOutcome = "none",
                        !.removeCalls = {}, !.before = CoverState.storage,
                        !.result = Null, !.book = Null]
       IN  lastOp' =
             IF outcome = "throw"
             THEN [called EXCEPT !.result = Some([error |-> TRUE])]
             ELSE [called EXCEPT
                     !.pc = "selected",
                     !.book = IF outcome = "ok" /\ found # {}
                              THEN Some(CHOOSE r \in found : TRUE) ELSE Null]
    /\ UNCHANGED <<storeVars, remoteVars>>

deleteBookDelete_ContinueOnError(outcome) ==
    /\ CoverState.pc = "selected"
    /\ lastOp' = [CoverState EXCEPT
                    !.op = "deleteBook.delete", !.rowOutcome = outcome,
                    !.pc = IF outcome = "throw" THEN "idle" ELSE "deleted",
                    !.rows = IF outcome = "ok"
                             THEN {r \in @ : r.id # CoverState.bookId} ELSE @,
                    !.result = IF outcome = "throw"
                               THEN Some([error |-> TRUE]) ELSE @]
    /\ UNCHANGED <<storeVars, remoteVars>>

(* deleteBook, lines 122-131: the row's deletion; an error is returned at
   once, a throw is returned by the catch block. *)
deleteBookDelete(outcome) ==
    /\ CoverState.pc = "selected"
    /\ lastOp' = [CoverState EXCEPT
                    !.op = "deleteBook.delete", !.rowOutcome = outcome,
                    !.pc = IF outcome = "ok" THEN "deleted" ELSE "idle",
                    !.rows = IF outcome = "ok"
                             THEN {r \in @ : r.id # CoverState.bookId} ELSE @,
                    !.result = IF outcome = "ok" THEN @
                               ELSE Some([error |-> TRUE])]
    /\ UNCHANGED <<storeVars, remoteVars>>

(* deleteBookCover, lines 146-169: the file removed from the bucket, if
   any; a failing or throwing remove() removes nothing. *)
deleteBookCover(imageUrl, storage, outcome) ==
    LET filename == Filename(imageUrl)
    IN  IF filename # <<>> /\ startsWith(filename, <<"book-cover-">>)
        THEN [calls |-> {filename},
              storage |-> IF outcome = "ok" THEN storage \ {filename} ELSE storage]
        ELSE [calls |-> {}, storage |-> storage]

(* deleteBook, lines 133-138: the cover's removal and the return; what
   deleteBookCover returns is not looked at. *)
deleteBookCoverStep(outcome) ==
    /\ CoverState.pc = "deleted"
    /\ LET book == CoverState.book
           wanted == /\ book # Null
                     /\ book[1].cover_url # Null
                     /\ includes(book[1].cover_url[1], <<"supabase">>)
           done == IF wanted
                   THEN deleteBookCover(book[1].cover_url[1], CoverState.storage, outcome)
                   ELSE [calls |-> {}, storage |-> CoverState.storage]
       IN  lastOp' = [CoverState EXCEPT
                        !.op = "deleteBook.cover", !.pc = "idle",
                        !.removeCalls = done.calls, !.storage = done.storage,
                        !.result = Some([error |-> FALSE])]
    /\ UNCHANGED <<storeVars, remoteVars>>

NextCover ==
    \/ \E id \in 1..MaxCovers, cover \in {Null} \cup {Some(u) : u \in CoverUrls} :
          createBookRow(id, cover)
    \/ \E bookId \in 1..MaxCovers, outcome \in {"ok", "error", "throw"} :
          deleteBookSelect(bookId, outcome)
    \/ \E outcome \in {"ok", "error", "throw"} : deleteBookDelete(outcome)
    \/ \E outcome \in {"ok", "error", "throw"} : deleteBookCoverStep(outcome)

SpecCover == Init /\ [][NextCover]_vars

----------------------------------------------------------------------------
(* Properties *)

HasId(bs, id) == \E i \in 1..Len(bs) : bs[i].id = id

\* C1: no two records of the Store's collection have the same id, in every
\* state the running client reaches.
C1_UniqueIds ==
    \A i, j \in 1..Len(books) : i # j => books[i].id # books[j].id

\* C2: addBook(b) makes the collection one longer, puts b first and keeps
\* the previous records behind it in their previous order, whatever b's
\* created_at.
C2_AddPrepends ==
    [][lastOp'.op = "addBook" =>
         /\ Len(books') = Len(books) + 1
         /\ books'[1] = lastOp'.arg
         /\ \A i \in 1..Len(books) : books'[i + 1] = books[i]]_vars

\* addBook has put a record in front of a newer one.
C2_Witness ==
    /\ lastOp.op = "addBook"
    /\ Len(books) = 3
    /\ books[1] = lastOp.arg
    /\ books[1].created_at < books[2].created_at

\* C3: updateBook(id, updates) on an id that is present changes only the
\* fields named in updates, and only on records with that id; the other
\* records, the length and the order stay.
C3_UpdateFrame ==
    [][(lastOp'.op = "updateBook" /\ HasId(books, lastOp'.arg.id)) =>
         /\ Len(books') = Len(books)
         /\ \A i \in 1..Len(books) :
              IF books[i].id = lastOp'.arg.id
              THEN \A f \in DOMAIN books[i] :
                     f \notin DOMAIN lastOp'.arg.updates
                        => books'[i][f] = books[i][f]
              ELSE books'[i] = books[i]]_vars

\* updateBook has changed a record that stands between two records of
\* another id.
C3_Witness ==
    /\ lastOp.op = "updateBook"
    /\ Len(books) = 3
    /\ books[2].id = lastOp.arg.id
    /\ books[1].id # lastOp.arg.id
    /\ books[3].id # lastOp.arg.id
    /\ \E f \in DOMAIN lastOp.arg.updates : books[2][f] # books[1][f]

\* C4: updateBook(id, updates) on an id that no record has leaves the
\* collection as it was.
C4_UpdateMissing ==
    [][(lastOp'.op = "updateBook" /\ ~HasId(books, lastOp'.arg.id)) =>
         books' = books]_vars

\* updateBook was called with an id that is on none of the three records.
C4_Witness ==
    /\ lastOp.op = "updateBook"
    /\ Len(books) = 3
    /\ ~HasId(books, lastOp.arg.id)

\* C5: removeBook(id) makes the collection exactly one shorter when a
\* record with that id was present and leaves its length otherwise, and the
\* remaining records keep their relative order.
C5_RemoveOne ==
    [][(lastOp'.op = "handleConfirmDeleteReply" /\ lastOp'.ok) =>
         /\ Len(books') = Len(books) - (IF HasId(books, lastOp'.arg) THEN 1 ELSE 0)
         /\ \E f \in [1..Len(books') -> 1..Len(books)] :
              /\ \A k \in 1..Len(books') : books'[k] = books[f[k]]
              /\ \A k, l \in 1..Len(books') : k < l => f[k] < f[l]]_vars

\* Two characters that differ at most in case.
SameLetter(c, d) == c = d \/ {c, d} = {"a", "A"} \/ {c, d} = {"b", "B"}

\* q occurs in s as a contiguous run, letter case ignored.
ContainsIgnoringCase(s, q) ==
    \E k \in 0..(Len(s) - Len(q)) :
        \A j \in 1..Len(q) : SameLetter(s[k + j], q[j])

\* The record passes the category, the search and the status filter.
PassesAllFilters(book) ==
    /\ selectedCategory = Null \/ book.category = selectedCategory[1]
    /\ \/ searchQuery = <<>>
       \/ ContainsIgnoringCase(book.title, searchQuery)
       \/ ContainsIgnoringCase(book.author, searchQuery)
    /\ selectedReadingStatus = Null \/ book.reading_status = selectedReadingStatus[1]

\* C6: getFilteredBooks() is the subsequence of books, in collection order,
\* of exactly the records that pass the category filter and the search
\* filter and the status filter.
C6_FilterIsAnd ==
    LET keep   == {i \in 1..Len(books) : PassesAllFilters(books[i])}
        nth(k) == CHOOSE i \in keep : Cardinality({j \in keep : j < i}) = k - 1
    IN  /\ Len(getFilteredBooks) = Cardinality(keep)
        /\ \A k \in 1..Len(getFilteredBooks) : getFilteredBooks[k] = books[nth(k)]

\* All three filters are set; one record passes all of them, another passes
\* category and search but not status and is left out.
C6_Witness ==
    /\ selectedCategory # Null
    /\ searchQuery # <<>>
    /\ selectedReadingStatus # Null
    /\ Len(getFilteredBooks) = 1
    /\ \E i \in 1..Len(books) :
         /\ books[i].category = selectedCategory[1]
         /\ ContainsIgnoringCase(books[i].title, searchQuery)
         /\ books[i].reading_status # selectedReadingStatus[1]

\* C7: a book passes the search filter iff the query is empty or occurs,
\* letter case ignored, inside the title or inside the author.
C7_SearchCaseInsensitive ==
    \A i \in 1..Len(books) :
        matchesSearch(books[i]) <=>
            \/ searchQuery = <<>>
            \/ ContainsIgnoringCase(books[i].title, searchQuery)
            \/ ContainsIgnoringCase(books[i].author, searchQuery)

\* A query with an upper-case letter matches a book only through case
\* folding, and another book of the collection does not match.
C7_Witness ==
    /\ \E k \in 1..Len(searchQuery) : searchQuery[k] \in {"A", "B"}
    /\ \E i \in 1..Len(books) :
         /\ matchesSearch(books[i])
         /\ ~includes(books[i].title, searchQuery)
         /\ ~includes(books[i].author, searchQuery)
    /\ \E j \in 1..Len(books) : ~matchesSearch(books[j])

\* C8: with an empty query and no category or status filter,
\* getFilteredBooks() is the whole collection in its order.
C8_NoFilterIsIdentity ==
    (searchQuery = <<>> /\ selectedCategory = Null /\ selectedReadingStatus = Null)
        => getFilteredBooks = books

\* Three records, the last step an update, no filter set.
C8_Witness ==
    /\ lastOp.op = "updateBook"
    /\ Len(books) = 3
    /\ searchQuery = <<>> /\ selectedCategory = Null /\ selectedReadingStatus = Null
    /\ Len(getFilteredBooks) = 3

\* C9: getCategories() holds every category that is on some book exactly
\* once, and nothing else.
C9_CategoriesDistinct ==
    /\ \A i \in 1..Len(books) :
         Cardinality({k \in 1..Len(getCategories) :
                        getCategories[k] = books[i].category}) = 1
    /\ \A k \in 1..Len(getCategories) :
         \E i \in 1..Len(books) : books[i].category = getCategories[k]

\* Three books on two categories.
C9_Witness ==
    /\ Len(books) = 3
    /\ books[1].category = books[3].category
    /\ books[1].category # books[2].category
    /\ Len(getCategories) = 2

CloseOps == {"closeAddModal", "closeEditModal", "closeDeleteModal"}

\* C10: each close action leaves its modal closed and its target null, and
\* the same close action applied again changes nothing.
C10_CloseIdempotent ==
    [][/\ lastOp'.op = "closeAddModal" => ~showAddModal'
       /\ lastOp'.op = "closeEditModal" => (~showEditModal' /\ bookToEdit' = Null)
       /\ lastOp'.op = "closeDeleteModal" => (~showDeleteModal' /\ bookToDelete' = Null)
       /\ (lastOp.op \in CloseOps /\ lastOp'.op = lastOp.op)
            => storeVars' = storeVars]_vars

\* closeEditModal has closed the edit modal while the other two are open.
C10_Witness ==
    /\ lastOp.op = "closeEditModal"
    /\ ~showEditModal /\ bookToEdit = Null
    /\ showAddModal
    /\ showDeleteModal /\ bookToDelete # Null

\* C11: from any prior state, openEditModal(b) leaves the edit modal open
\* with b as its target, replacing whatever target was set before;
\* openDeleteModal(b) does the same for the delete modal; openAddModal
\* leaves the add modal open.
C11_OpenSetsTarget ==
    [][/\ lastOp'.op = "openEditModal" =>
            showEditModal' /\ bookToEdit' = Some(lastOp'.arg)
       /\ lastOp'.op = "openDeleteModal" =>
            showDeleteModal' /\ bookToDelete' = Some(lastOp'.arg)
       /\ lastOp'.op = "openAddModal" => showAddModal']_vars
\* An edit target is replaced by a different one while the other two
\* modals are open.
C11_Witness ==
    /\ lastOp.op = "openEditModal"
    /\ lastOp.prev # Null /\ lastOp.prev # Some(lastOp.arg)
    /\ bookToEdit = Some(lastOp.arg)
    /\ showAddModal /\ showDeleteModal

\* The record passes the filters c (category), q (search) and st (status).
PassesGiven(book, c, q, st) ==
    /\ c = Null \/ book.category = c[1]
    /\ \/ q = <<>>
       \/ ContainsIgnoringCase(book.title, q)
       \/ ContainsIgnoringCase(book.author, q)
    /\ st = Null \/ book.reading_status = st[1]

\* C12: setBooks(seq) makes the collection exactly seq, as given (same
\* records, same order, duplicates kept, nothing of the previous collection
\* left), and right after it getFilteredBooks() holds the records of seq
\* that pass the filters, in the order of seq, and getCategories() holds
\* the categories of seq.
C12_SetBooksReplaces ==
    [][lastOp'.op = "setBooks" =>
         LET seq    == lastOp'.arg
             keep   == {i \in 1..Len(seq) : PassesGiven(seq[i], selectedCategory', searchQuery',
                                    selectedReadingStatus')}
             nth(k) == CHOOSE i \in keep : Cardinality({j \in keep : j < i}) = k - 1
         IN  /\ books' = seq
             /\ Len(getFilteredBooks') = Cardinality(keep)
             /\ \A k \in 1..Len(getFilteredBooks') : getFilteredBooks'[k] = seq[nth(k)]
             /\ {getCategories'[k] : k \in 1..Len(getCategories')}
                  = {seq[i].category : i \in 1..Len(seq)}]_vars
\* A list given out of creation order is stored in that order and seen
\* through an active category filter.
C12_Witness ==
    /\ lastOp.op = "setBooks"
    /\ books = <<BookC, BookA, BookB>>
    /\ selectedCategory = Some("Sci-Fi")
    /\ getFilteredBooks = <<BookC, BookA>>
    /\ getCategories = <<"Sci-Fi", "Fantasy">>

MutatorOps == {"setBooks", "addBook", "updateBook", "removeBook"}

\* C13: setSearchQuery, setSelectedCategory, setSelectedReadingStatus and
\* setViewMode each set their own field to the argument and change nothing
\* else of the Store; addBook, updateBook, removeBook and setBooks leave
\* the three filter fields, viewMode and all modal state as they were.
C13_Frame ==
    [][/\ lastOp'.op = "setSearchQuery" =>
            /\ searchQuery' = lastOp'.arg
            /\ UNCHANGED <<books, selectedCategory, selectedReadingStatus,
                           viewMode, flagVars, modalVars>>
       /\ lastOp'.op = "setSelectedCategory" =>
            /\ selectedCategory' = lastOp'.arg
            /\ UNCHANGED <<books, searchQuery, selectedReadingStatus,
                           viewMode, flagVars, modalVars>>
       /\ lastOp'.op = "setSelectedReadingStatus" =>
            /\ selectedReadingStatus' = lastOp'.arg
            /\ UNCHANGED <<books, searchQuery, selectedCategory,
                           viewMode, flagVars, modalVars>>
       /\ lastOp'.op = "setViewMode" =>
            /\ viewMode' = lastOp'.arg
            /\ UNCHANGED <<books, searchQuery, selectedCategory,
                           selectedReadingStatus, flagVars, modalVars>>
       /\ lastOp'.op \in MutatorOps =>
            UNCHANGED <<filterVars, modalVars>>]_vars
\* The record targeted by the open edit modal is removed from the
\* collection while a search and the table view are set: the target, the
\* flags and the filters stay.
C13_Witness ==
    /\ lastOp.op = "removeBook"
    /\ showEditModal /\ bookToEdit = Some(BookA) /\ ~HasId(books, 1)
    /\ showDeleteModal /\ searchQuery = <<"a">> /\ viewMode = "table"
    /\ selectedCategory # Null /\ selectedReadingStatus # Null

ReplyOps == {"loadBooksReply", "handleAddBookReply", "handleConfirmDeleteReply",
             "handleSaveEditReply"}
RequestOps == {"mount", "refresh", "handleAddBook", "handleConfirmDelete",
               "handleSaveEdit"}

\* C14: when the remote call of loadBooks, handleAddBook, handleConfirmDelete
\* or handleSaveEdit fails, the handler calls no Store mutator: the step
\* that handles the failure leaves books as it was, and so does the step
\* that issued the request.
C14_FailureKeepsBooks ==
    [][/\ lastOp'.op \in ReplyOps => (~lastOp'.ok => books' = books)
       /\ lastOp'.op \in RequestOps => books' = books]_vars
\* A delete has failed and the record is still in the collection.
C14_Witness ==
    /\ lastOp.op = "handleConfirmDeleteReply"
    /\ ~lastOp.ok
    /\ HasId(books, lastOp.arg)
    /\ HasId(table, lastOp.arg)

\* The requests of the given kind that have been issued and whose response
\* the page has not handled yet are at most one.
AtMostOne(kind) ==
    \A r1, r2 \in BagToSet(net) :
        (r1.kind = kind /\ r2.kind = kind) => (r1 = r2 /\ CopiesIn(r1, net) = 1)

\* C15: at most one persistence request of a kind is outstanding: no second
\* insert is issued while one is in flight, and no second delete for the
\* same record.
C15_OneRequestPerKind ==
    /\ AtMostOne("insert")
    /\ \A r1, r2 \in BagToSet(net) :
         (r1.kind = "delete" /\ r2.kind = "delete" /\ r1.id = r2.id)
            => (r1 = r2 /\ CopiesIn(r1, net) = 1)

Ids(rows) == {rows[i].id : i \in 1..Len(rows)}

\* C16: whenever no request is in flight after a load has succeeded, the
\* ids in the Store are exactly the ids in the remote table.
C16_StoreMatchesRemote ==
    (loaded /\ net = EmptyBag) => Ids(books) = Ids(table)

\* C17: every record of the Store came from the remote: each step leaves in
\* books only records that were already there and records carried by a
\* successful response to the list query, an insert or an update; nothing
\* is added or changed from form data alone.
C17_RecordsFromRemote ==
    [][\A i \in 1..Len(books') :
         \/ \E j \in 1..Len(books) : books[j] = books'[i]
         \/ \E r \in BagToSet(net) :
              /\ r.phase = "replied" /\ r.ok
              /\ r.kind \in {"select", "insert", "update"}
              /\ \E k \in 1..Len(r.data) : r.data[k] = books'[i]]_vars
\* An edit has been saved: the Store's record is the row the remote
\* returned, with the title of the edit form.
C17_Witness ==
    /\ lastOp.op = "handleSaveEditReply" /\ lastOp.ok
    /\ Len(books) = 1 /\ table = books
    /\ books[1].title = <<"a">> /\ books[1].id = 1

IdSeq(rows) == [i \in 1..Len(rows) |-> rows[i].id]

\* A step that keeps the sequence of ids, or is an addBook that puts the
\* new record's id in front of it.
IdsKeptOrPrepended ==
    \/ IdSeq(books') = IdSeq(books)
    \/ /\ lastOp'.op = "addBook"
       /\ IdSeq(books') = <<lastOp'.arg.id>> \o IdSeq(books)

PutOps == {"ctlUpdateBook", "simplePut"}
DeleteOps == {"ctlDeleteBook", "simpleDelete"}

\* C19: a PUT or DELETE of /api/v1/books/:id whose id is not in the table
\* is answered, when the database answers at all, with status 404 and
\* success false.
C19_MissingIdIs404 ==
    lastOp.op \in PutOps \cup DeleteOps =>
        ((~lastOp.found /\ lastOp.db) =>
            (lastOp.status = 404 /\ ~lastOp.json.success))

PostOps == {"ctlCreateBook", "simplePost"}
RequiredFields == {"title", "author", "category"}

\* C20: a create or update with a missing or empty title, author or
\* category never reaches the table: POST /api/v1/books with such a body
\* answers 400 and inserts nothing, and PUT /api/v1/books/:id leaves no
\* required field of a row empty that was not empty before.
C20_RequiredFieldsGuarded ==
    [][/\ lastOp'.op \in PostOps =>
            ((\E f \in RequiredFields : Falsy(lastOp'.body, f))
                => (lastOp'.status = 400 /\ table' = table))
       /\ lastOp'.op \in PutOps =>
            \A i \in 1..Len(table') : \A f \in RequiredFields :
                table'[i][f] = <<>> => table[i][f] = <<>>]_vars

\* C21: every row a create path writes has a title, an author and a
\* category that are non-empty after trimming, and a POST whose body has
\* one of them made of whitespace only writes no row.
C21_CreatedRowsNonEmpty ==
    [][lastOp'.op \in PostOps =>
         /\ lastOp'.status = 201 =>
              \A f \in RequiredFields : trim(table'[Len(table')][f]) # <<>>
         /\ (\E f \in RequiredFields :
               f \in DOMAIN lastOp'.body /\ trim(lastOp'.body[f]) = <<>>)
              => table' = table]_vars

RestOps == {"getAllBooks", "simpleGetAll", "getBookById"}
           \cup PostOps \cup PutOps \cup DeleteOps

\* C22: every response of the book REST handlers, on success and on the
\* 400, 404 and 500 paths, has a boolean success field and a timestamp
\* field.
C22_UniformEnvelope ==
    lastOp.op \in RestOps =>
        /\ {"success", "timestamp"} \subseteq DOMAIN lastOp.json
        /\ lastOp.json.success \in BOOLEAN

RecFields == {"title", "author", "reason", "confidence", "genre"}

\* C23: whatever the request and whatever the generation call does, the
\* answer of the recommendations endpoint has a recommendations list of 1
\* to 4 entries, each with title, author, reason, confidence and genre.
C23_AlwaysRecommends ==
    lastOp.op = "POST" =>
        /\ "recommendations" \in DOMAIN lastOp.json
        /\ Len(lastOp.json.recommendations) \in 1..4
        /\ \A i \in 1..Len(lastOp.json.recommendations) :
             RecFields \subseteq DOMAIN lastOp.json.recommendations[i]

(* C24: every payload a form dispatches is status/progress consistent:
   finished carries progress 100, to-read carries progress 0 and no start
   date, reading carries a progress between 0 and 100. *)
C24_PayloadConsistent ==
    lastOp.op = "handleSubmit" =>
        LET p == lastOp.payload[1]
        IN  /\ p.reading_status = "finished" => p.progress_percentage = 100
            /\ p.reading_status = "to-read" =>
                   (p.progress_percentage = 0 /\ p.date_started = Null)
            /\ p.reading_status = "reading" => p.progress_percentage \in 0..100

(* The two implications the payload expression itself enforces. *)
FormEnforced ==
    lastOp.op = "handleSubmit" =>
        LET p == lastOp.payload[1]
        IN  /\ p.reading_status = "finished" => p.progress_percentage = 100
            /\ p.reading_status = "to-read" =>
                   (p.progress_percentage = 0 /\ p.date_started = Null)

(* C25: a submission that sets the status to finished carries a finish
   date, and one that moves the status away from to-read (a new book, or a
   row that was to-read) carries a start date. *)
C25_DatesFollowStatus ==
    lastOp.op = "handleSubmit" =>
        LET p == lastOp.payload[1]
            wasToRead == \/ lastOp.modal = "add"
                         \/ (lastOp.prev # Null /\ lastOp.prev[1].reading_status = "to-read")
        IN  /\ p.reading_status = "finished" => p.date_finished # Null
            /\ (wasToRead /\ p.reading_status # "to-read") => p.date_started # Null

(* C26: the edit modal is shown exactly when an edit target is held, and
   the delete modal is shown exactly when a delete target is held. *)
C26_FlagIffTarget ==
    /\ showEditModal <=> (bookToEdit # Null)
    /\ showDeleteModal <=> (bookToDelete # Null)

(* A delete target is held and shown after the edit modal was opened and
   closed again. *)
C26_Witness ==
    /\ lastOp.op = "closeEditModal"
    /\ showDeleteModal /\ bookToDelete # Null
    /\ ~showEditModal /\ bookToEdit = Null

(* C27: while the delete modal is open its target is a record of the
   collection, and while the edit modal is open its target equals the
   collection's record with that id. *)
C27_TargetsCurrent ==
    /\ (showDeleteModal /\ bookToDelete # Null) =>
           \E i \in 1..Len(books) : books[i] = bookToDelete[1]
    /\ (showEditModal /\ bookToEdit # Null) =>
           \E i \in 1..Len(books) : books[i] = bookToEdit[1]

(* C28: the response to a submitted add form closes the add modal only when
   the insert succeeded and the book was added; a failed insert leaves the
   modal open. *)
C28_CloseOnlyOnSuccess ==
    [][(lastOp'.op = "handleAddBookReply" /\ showAddModal) =>
           IF lastOp'.ok
           THEN ~showAddModal' /\ Len(books') = Len(books) + 1
           ELSE showAddModal' /\ books' = books]_vars

InFlight(kind) == \E r \in BagToSet(net) : r.kind = kind

(* C29: loading is true while a loadBooks query is in flight and
   addingBook is true while an insert is in flight. *)
C29_FlagsTrackRequests ==
    /\ InFlight("select") => loading
    /\ InFlight("insert") => addingBook

(* C29, release: the step that receives a query's or an insert's outcome,
   whichever it is, ends with the call's flag false. *)
C29_ReplyReleases ==
    [][/\ lastOp'.op = "loadBooksReply" => ~loading'
       /\ lastOp'.op = "handleAddBookReply" => ~addingBook']_vars

CoverOps == {"deleteBook.select", "deleteBook.delete", "deleteBook.cover"}

(* C30: deleteBook asks the bucket to remove a file only after the row's
   deletion succeeded, and only the last path segment of a cover URL that
   contains 'supabase' and whose last segment starts with 'book-cover-';
   when the row's deletion fails, the bucket is as it was and the error is
   returned. *)
C30_CoverAfterRow ==
    lastOp.op \in CoverOps =>
        /\ (lastOp.removeCalls # {} \/ lastOp.storage # lastOp.before) =>
               /\ lastOp.rowOutcome = "ok"
               /\ lastOp.book # Null /\ lastOp.book[1].cover_url # Null
               /\ LET url == lastOp.book[1].cover_url[1]
                  IN  /\ includes(url, <<"supabase">>)
                      /\ startsWith(Filename(url), <<"book-cover-">>)
                      /\ lastOp.removeCalls = {Filename(url)}
                      /\ lastOp.before \ lastOp.storage \subseteq {Filename(url)}
        /\ lastOp.rowOutcome \in {"error", "throw"} =>
               /\ lastOp.storage = lastOp.before
               /\ lastOp.removeCalls = {}
               /\ lastOp.result = Some([error |-> TRUE])

(* A deletion that succeeded and took the uploaded cover out of the bucket. *)
C30_Witness ==
    /\ lastOp.op = "deleteBook.cover"
    /\ lastOp.rowOutcome = "ok"
    /\ lastOp.before # {} /\ lastOp.storage = {}
    /\ lastOp.result = Some([error |-> FALSE])

(* A failed deletion of a row with an uploaded cover. *)
C30_WitnessError ==
    /\ lastOp.op = "deleteBook.delete"
    /\ lastOp.rowOutcome = "error"
    /\ lastOp.book # Null /\ lastOp.before # {}

====
